---- MODULE Spec2Model ----
(***************************************************************************)
(* make-us-rich: the Kedro pipeline registry (fetch -> preprocess -> train *)
(* -> convert) and the serving side's ModelLoader, which mirrors the       *)
(* models of the current date from a Minio bucket into ./models and keeps  *)
(* one OnnxModel per model name in session_models.                         *)
(*                                                                         *)
(* Three specifications share the module:                                  *)
(*   SpecPipeline  register_pipelines and a run of a registered pipeline   *)
(*   SpecLoader    the ModelLoader object, the bucket and the local files  *)
(*   SpecServing   SpecLoader with get_predictions called between updates  *)
(***************************************************************************)
EXTENDS Naturals, Sequences, FiniteSets, TLC

VARIABLES
    \* ---- pipeline side
    registry,        \* the mapping returned by register_pipelines (empty before the call)
    catalog,         \* dataset names registered in the data catalog
    running,         \* name of the pipeline being run, "none" when no run is active
    status,          \* node name -> "idle" | "running" | "done", for the active run
    datasets,        \* dataset names that currently hold data (registered ones keep
                     \* theirs from earlier runs)
    run_result,      \* "none" | "ok" | "ValueError" | "DataSetError": how the last run ended
    \* ---- serving side
    today,           \* the wall clock's day (datetime.now())
    bucket_exists,   \* whether MINIO_BUCKET exists
    objects,         \* objects of the bucket: <<date, model name, file>>
    constructed,     \* a ModelLoader object exists
    in_init,         \* the running update_model_files is the constructor's
    session_models,  \* self.session_models: key -> OnnxModel
    date,            \* self.date (0 before update_date)
    dirs,            \* local directories under ./models
    files,           \* local files: <<directory, file>> -> date of the object it was fetched from
    pc,              \* position inside update_model_files, "idle" outside
    todo,            \* models of the listing not yet iterated
    listing,         \* the value _get_list_of_available_models returned to the last call
    cur,             \* <<currency, compare>> of the current iteration
    before,          \* session_models as it was when the running update_model_files began
    placed,          \* key -> self.date of the call that placed the key's entry
    result           \* what the last call returned or raised

pvars == <<registry, catalog, running, status, datasets, run_result>>
lvars == <<today, bucket_exists, objects, constructed, in_init, session_models,
           date, dirs, files, pc, todo, listing, cur, before, placed, result>>
vars == <<pvars, lvars>>

(***************************************************************************)
(* Pipeline side                                                           *)
(***************************************************************************)

\* kedro.pipeline.node(func, inputs, outputs, name)
node(func, inputs, outputs, name) ==
    [func |-> func, inputs |-> inputs, outputs |-> outputs, name |-> name]

\* kedro.pipeline.Pipeline(list of nodes): the set of the listed nodes
Pipeline(nodes) == {nodes[i] : i \in DOMAIN nodes}

\* fetching_data.create_pipeline
fd_create_pipeline ==
    Pipeline(<<
        node("fetch_data", {"params:fetching"}, {"fetched_data"}, "fetching_data_node")
    >>)

\* preprocessing_data.create_pipeline
pd_create_pipeline ==
    Pipeline(<<
        node("extract_features", {"fetched_data"}, {"preprocessed_data"},
             "preprocessing_data_node"),
        node("create_sequences", {"preprocessed_data", "params:preprocessing"},
             {"train_sequences", "val_sequences", "test_sequences"},
             "creating_sequences_node")
    >>)

\* training_model.create_pipeline: training_loop has outputs=None
tm_create_pipeline ==
    Pipeline(<<
        node("training_loop",
             {"train_sequences", "val_sequences", "test_sequences", "params:training"},
             {},
             "training_model_node")
    >>)

\* converting_to_onnx.create_pipeline
cto_create_pipeline ==
    Pipeline(<<
        node("convert_model",
             {"train_sequences", "val_sequences", "test_sequences",
              "params:training", "params:dir_path", "training_done"},
             {"conversion_done", "input_sample"},
             "converting_model_node"),
        node("validate_model",
             {"params:dir_path", "conversion_done", "input_sample"},
             {"validation_done"},
             "validating_model_node")
    >>)

\* Pipeline.__add__: Pipeline(set(self.nodes + other.nodes))
PipelineAdd(p, q) == p \cup q

\* a plausible slip in the sum: the training pipeline is left out
default_pipeline_without_training ==
    PipelineAdd(PipelineAdd(fd_create_pipeline, pd_create_pipeline), cto_create_pipeline)

\* the `__default__` entry
default_pipeline ==
    PipelineAdd(PipelineAdd(PipelineAdd(fd_create_pipeline, pd_create_pipeline),
                            tm_create_pipeline),
                cto_create_pipeline)

\* register_pipelines()
register_pipelines ==
    [n \in {"__default__", "fetching_data", "preprocessing_data",
            "training_model", "converting_to_onnx"} |->
        CASE n = "__default__"        -> default_pipeline
          [] n = "fetching_data"      -> fd_create_pipeline
          [] n = "preprocessing_data" -> pd_create_pipeline
          [] n = "training_model"     -> tm_create_pipeline
          [] n = "converting_to_onnx" -> cto_create_pipeline]

AllNodes ==
    fd_create_pipeline \cup pd_create_pipeline \cup tm_create_pipeline \cup cto_create_pipeline

NodeNames == {n.name : n \in AllNodes}

\* parameters are always part of the catalog
Params == {"params:fetching", "params:preprocessing", "params:training", "params:dir_path"}

\* datasets a project may or may not register in its catalog
Registrable == {"fetched_data", "train_sequences", "val_sequences", "test_sequences",
                "training_done"}

\* Pipeline.inputs(): inputs that no node of the pipeline produces
FreeInputs(p) ==
    UNION {n.inputs : n \in p} \ UNION {n.outputs : n \in p}

\* the nodes of the pipeline a node depends on: the producers of its inputs
Parents(p, n) == {m \in p : m.outputs \cap n.inputs # {}}

IdleStatus == [n \in NodeNames |-> "idle"]

\* no pipeline is registered before register_pipelines is called
NoRegistry == [n \in {} |-> {}]

InitPipeline ==
    /\ registry = NoRegistry
    /\ catalog \in {Params \cup r : r \in SUBSET Registrable}
    /\ running = "none"
    /\ status = IdleStatus
    /\ datasets \in {Params \cup r : r \in SUBSET (catalog \ Params)}
    /\ run_result = "none"

\* the project calls register_pipelines() once
Register ==
    /\ registry = NoRegistry
    /\ registry' = register_pipelines
    /\ UNCHANGED <<catalog, running, status, datasets, run_result>>
    /\ UNCHANGED lvars

\* AbstractRunner.run: free inputs that the catalog does not hold end the run at once
RunPipeline(name) ==
    /\ running = "none"
    /\ name \in DOMAIN registry
    /\ IF FreeInputs(registry[name]) \subseteq catalog
       THEN /\ running' = name
            /\ status' = IdleStatus
            /\ run_result' = "none"
       ELSE /\ run_result' = "ValueError"
            /\ UNCHANGED <<running, status>>
    /\ UNCHANGED <<registry, catalog, datasets>>
    /\ UNCHANGED lvars

\* a node may start once every node producing one of its inputs has finished;
\* loading an input that holds no data fails the run
NodeStart(n) ==
    /\ running # "none"
    /\ n \in registry[running]
    /\ status[n.name] = "idle"
    /\ \A m \in Parents(registry[running], n) : status[m.name] = "done"
    /\ IF n.inputs \subseteq datasets
       THEN /\ status' = [status EXCEPT ![n.name] = "running"]
            /\ UNCHANGED <<running, run_result, datasets>>
       ELSE /\ running' = "none"
            /\ run_result' = "DataSetError"
            /\ status' = status
            /\ datasets' = datasets \cap catalog
    /\ UNCHANGED <<registry, catalog>>
    /\ UNCHANGED lvars

\* the node's function returns and its outputs are saved
NodeFinish(n) ==
    /\ running # "none"
    /\ n \in registry[running]
    /\ status[n.name] = "running"
    /\ status' = [status EXCEPT ![n.name] = "done"]
    /\ datasets' = datasets \cup n.outputs
    /\ UNCHANGED <<registry, catalog, running, run_result>>
    /\ UNCHANGED lvars

\* every node is done: the run ends, unregistered (memory) datasets are released
RunEnd ==
    /\ running # "none"
    /\ \A n \in registry[running] : status[n.name] = "done"
    /\ running' = "none"
    /\ run_result' = "ok"
    /\ datasets' = datasets \cap catalog
    /\ UNCHANGED <<registry, catalog, status>>
    /\ UNCHANGED lvars

NextPipeline ==
    \/ Register
    \/ \E name \in {"__default__", "fetching_data", "preprocessing_data",
                    "training_model", "converting_to_onnx"} : RunPipeline(name)
    \/ \E n \in AllNodes : NodeStart(n)
    \/ \E n \in AllNodes : NodeFinish(n)
    \/ RunEnd

(***************************************************************************)
(* Serving side                                                            *)
(***************************************************************************)

\* days the clock can show
MaxDate == 2

\* objects the bucket can hold
MaxObjects == 4

\* objects the bucket can hold while predictions are served
MaxServedObjects == 2

Dates == 1..MaxDate

\* samples a caller passes to get_predictions
Samples == {"sample_a", "sample_b"}

\* model names found in the bucket, as the characters between the slashes
\* ("_" is the separator the loader splits on)
ModelNames == {<<"btc", "_", "usdt">>, <<"eth", "_", "usdt">>,
               <<"btc">>}

FileNames == {"model.onnx", "scaler.pkl"}

\* self.session_models = {}
NoModels == [k \in {} |-> 0]

\* an empty ./models
NoFiles == [f \in {} |-> 0]

\* str.split(sep)
RECURSIVE split(_, _)
split(s, sep) ==
    IF s = <<>> THEN << <<>> >>
    ELSE LET rest == split(Tail(s), sep)
         IN  IF Head(s) = sep
             THEN << <<>> >> \o rest
             ELSE << <<Head(s)>> \o Head(rest) >> \o Tail(rest)

\* f"{currency}_{compare}"
fmt_model(currency, compare) == currency \o <<"_">> \o compare

\* _get_models_files_path: (model path, scaler path)
_get_models_files_path(currency, compare) ==
    << <<fmt_model(currency, compare), "model.onnx">>,
       <<fmt_model(currency, compare), "scaler.pkl">> >>

\* _get_list_of_available_models: the second path component of every object
\* listed under the prefix self.date, as a set
_get_list_of_available_models(d) == {o[2] : o \in {x \in objects : x[1] = d}}

\* OnnxModel(model_path, scaler_path): the files are read when the model is built
OnnxModel(model_path, scaler_path) ==
    [model |-> files[model_path], scaler |-> files[scaler_path]]

\* OnnxModel.predict(sample)
predict(model, sample) == <<model.model, model.scaler, sample>>

\* _check_model_exists_in_session
_check_model_exists_in_session(model_name) == model_name \in DOMAIN session_models

\* the key built from the currency alone
SessionKey_currency_only(currency, compare) == currency

\* the dictionary key of _add_model_to_session_models
SessionKey(currency, compare) == fmt_model(currency, compare)

\* dict[key] = value
SetItem(d, k, v) == [x \in DOMAIN d \cup {k} |-> IF x = k THEN v ELSE d[x]]

\* a call that returned None
Returned(call) == [kind |-> "returned", call |-> call, args |-> <<>>, value |-> <<>>]

\* a call that an exception left
Raised(call, args, exc) == [kind |-> "raised", call |-> call, args |-> args, value |-> <<exc>>]

InitLoader ==
    /\ today = 1
    /\ bucket_exists \in BOOLEAN
    /\ objects = {}
    /\ constructed = FALSE
    /\ in_init = FALSE
    /\ session_models = NoModels
    /\ date = 0
    /\ dirs = {}
    /\ files = NoFiles
    /\ pc = "idle"
    /\ todo = {}
    /\ listing = {}
    /\ cur = <<>>
    /\ before = NoModels
    /\ placed = NoModels
    /\ result = Returned("none")

\* midnight passes
Tick ==
    /\ today < MaxDate
    /\ today' = today + 1
    /\ UNCHANGED <<bucket_exists, objects, constructed, in_init, session_models, date,
                   dirs, files, pc, todo, listing, cur, before, placed, result>>
    /\ UNCHANGED pvars

\* the training side stores one file of today's model in the bucket
Upload(name, file, limit) ==
    /\ bucket_exists
    /\ <<today, name, file>> \notin objects
    /\ Cardinality(objects) < limit
    /\ objects' = objects \cup {<<today, name, file>>}
    /\ UNCHANGED <<today, bucket_exists, constructed, in_init, session_models, date,
                   dirs, files, pc, todo, listing, cur, before, placed, result>>
    /\ UNCHANGED pvars

\* ModelLoader(): __init__ up to the loop of update_model_files
Construct ==
    /\ ~constructed
    /\ pc = "idle"
    /\ bucket_exists' = TRUE
    /\ session_models' = NoModels
    /\ before' = NoModels
    /\ placed' = NoModels
    /\ date' = today
    /\ listing' = _get_list_of_available_models(today)
    /\ todo' = listing'
    /\ in_init' = TRUE
    /\ pc' = "loop"
    /\ cur' = <<>>
    /\ result' = Returned("none")
    /\ UNCHANGED <<today, objects, constructed, dirs, files>>
    /\ UNCHANGED pvars

\* update_date
UpdateDate ==
    /\ constructed
    /\ pc = "idle"
    /\ date' = today
    /\ result' = Returned("update_date")
    /\ UNCHANGED <<today, bucket_exists, objects, constructed, in_init, session_models,
                   dirs, files, pc, todo, listing, cur, before, placed>>
    /\ UNCHANGED pvars

\* update_model_files: the listing is taken, the loop begins
UpdateModelFiles ==
    /\ constructed
    /\ pc = "idle"
    /\ listing' = _get_list_of_available_models(date)
    /\ todo' = listing'
    /\ before' = session_models
    /\ in_init' = FALSE
    /\ pc' = "loop"
    /\ cur' = <<>>
    /\ result' = Returned("none")
    /\ UNCHANGED <<today, bucket_exists, objects, constructed, session_models, date,
                   dirs, files, placed>>
    /\ UNCHANGED pvars

\* an exception leaves update_model_files (and __init__, when the call is its)
Raise(exc) ==
    /\ pc' = "idle"
    /\ in_init' = FALSE
    /\ todo' = {}
    /\ cur' = <<>>
    /\ before' = NoModels
    /\ result' = Raised("update_model_files", <<>>, exc)

\* the next model of the listing: split, then _makedir
LoopNext(m) ==
    /\ pc = "loop"
    /\ m \in todo
    /\ LET parts == split(m, "_")
       IN  IF Len(parts) = 2
           THEN /\ todo' = todo \ {m}
                /\ cur' = parts
                /\ dirs' = dirs \cup {fmt_model(parts[1], parts[2])}
                /\ pc' = "fget_model"
                /\ UNCHANGED <<in_init, result, before>>
           ELSE /\ Raise("ValueError")
                /\ UNCHANGED dirs
    /\ UNCHANGED <<today, bucket_exists, objects, constructed, session_models, date,
                   files, listing, placed>>
    /\ UNCHANGED pvars

\* fget_object inside try/except: a missing object is skipped and the loop goes on
fget_object_swallowing(file, next_pc) ==
    /\ IF <<date, fmt_model(cur[1], cur[2]), file>> \in objects
       THEN /\ files' = SetItem(files, <<fmt_model(cur[1], cur[2]), file>>, date)
            /\ pc' = next_pc
       ELSE /\ pc' = "loop"
            /\ UNCHANGED files
    /\ UNCHANGED <<today, bucket_exists, objects, constructed, session_models, date,
                   dirs, todo, listing, cur, before, placed, in_init, result>>
    /\ UNCHANGED pvars

\* fget_object asking for the object of the clock's day instead of self.date
fget_object_of_today(file, next_pc) ==
    /\ IF <<today, fmt_model(cur[1], cur[2]), file>> \in objects
       THEN /\ files' = SetItem(files, <<fmt_model(cur[1], cur[2]), file>>, today)
            /\ pc' = next_pc
            /\ UNCHANGED <<in_init, result, todo, cur, before>>
       ELSE /\ Raise("S3Error")
            /\ UNCHANGED files
    /\ UNCHANGED <<today, bucket_exists, objects, constructed, session_models, date,
                   dirs, listing, placed>>
    /\ UNCHANGED pvars

\* fget_object(bucket, f"{date}/{currency}_{compare}/<file>", local path)
fget_object(file, next_pc) ==
    /\ IF <<date, fmt_model(cur[1], cur[2]), file>> \in objects
       THEN /\ files' = SetItem(files, <<fmt_model(cur[1], cur[2]), file>>, date)
            /\ pc' = next_pc
            /\ UNCHANGED <<in_init, result, todo, cur, before>>
       ELSE /\ Raise("S3Error")
            /\ UNCHANGED files
    /\ UNCHANGED <<today, bucket_exists, objects, constructed, session_models, date,
                   dirs, listing, placed>>
    /\ UNCHANGED pvars

\* _download_files, first call of fget_object
FgetModel ==
    /\ pc = "fget_model"
    /\ fget_object("model.onnx", "fget_scaler")

\* _download_files, second call of fget_object
FgetScaler ==
    /\ pc = "fget_scaler"
    /\ fget_object("scaler.pkl", "add")

\* _add_model_to_session_models; OnnxModel cannot be built from a missing file
AddModel ==
    /\ pc = "add"
    /\ LET paths == _get_models_files_path(cur[1], cur[2])
       IN  IF {paths[1], paths[2]} \subseteq DOMAIN files
           THEN /\ session_models' = SetItem(session_models, SessionKey(cur[1], cur[2]),
                                             OnnxModel(paths[1], paths[2]))
                /\ placed' = SetItem(placed, SessionKey(cur[1], cur[2]), date)
                /\ pc' = "loop"
                /\ UNCHANGED <<in_init, result, todo, cur, before>>
           ELSE /\ Raise("FileNotFoundError")
                /\ UNCHANGED <<session_models, placed>>
    /\ UNCHANGED <<today, bucket_exists, objects, constructed, date,
                   dirs, files, listing>>
    /\ UNCHANGED pvars

\* the listing is exhausted: update_model_files (and __init__) returns
LoopEnd ==
    /\ pc = "loop"
    /\ todo = {}
    /\ pc' = "idle"
    /\ constructed' = (constructed \/ in_init)
    /\ in_init' = FALSE
    /\ result' = Returned("update_model_files")
    /\ cur' = <<>>
    /\ before' = NoModels
    /\ UNCHANGED <<today, bucket_exists, objects, session_models, date,
                   dirs, files, todo, listing, placed>>
    /\ UNCHANGED pvars

\* get_predictions with the else branch lost: an unknown model returns None
GetPredictions_returns_none(model_name, sample) ==
    /\ constructed
    /\ pc = "idle"
    /\ IF _check_model_exists_in_session(model_name)
       THEN result' = [kind |-> "returned", call |-> "get_predictions",
                       args |-> <<model_name, sample>>,
                       value |-> predict(session_models[model_name], sample)]
       ELSE result' = [kind |-> "returned", call |-> "get_predictions",
                       args |-> <<model_name, sample>>, value |-> <<>>]
    /\ UNCHANGED <<today, bucket_exists, objects, constructed, in_init, session_models,
                   date, dirs, files, pc, todo, listing, cur, before, placed>>
    /\ UNCHANGED pvars

\* get_predictions
GetPredictions(model_name, sample) ==
    /\ constructed
    /\ pc = "idle"
    /\ IF _check_model_exists_in_session(model_name)
       THEN result' = [kind |-> "returned", call |-> "get_predictions",
                       args |-> <<model_name, sample>>,
                       value |-> predict(session_models[model_name], sample)]
       ELSE result' = Raised("get_predictions", <<model_name, sample>>,
                             "ValueError: Model not found in session.")
    /\ UNCHANGED <<today, bucket_exists, objects, constructed, in_init, session_models,
                   date, dirs, files, pc, todo, listing, cur, before, placed>>
    /\ UNCHANGED pvars

\* the loader keeping its models up to date
NextLoader ==
    \/ Tick
    \/ \E name \in ModelNames, file \in FileNames : Upload(name, file, MaxObjects)
    \/ Construct
    \/ UpdateDate
    \/ UpdateModelFiles
    \/ \E m \in ModelNames : LoopNext(m)
    \/ FgetModel
    \/ FgetScaler
    \/ AddModel
    \/ LoopEnd

\* the loader serving predictions between its updates
NextServing ==
    \/ Tick
    \/ \E name \in ModelNames, file \in FileNames : Upload(name, file, MaxServedObjects)
    \/ Construct
    \/ UpdateDate
    \/ UpdateModelFiles
    \/ \E m \in ModelNames : LoopNext(m)
    \/ FgetModel
    \/ FgetScaler
    \/ AddModel
    \/ LoopEnd
    \/ \E model_name \in ModelNames, sample \in Samples : GetPredictions(model_name, sample)

\* the pipeline side at rest
InitPipelineIdle ==
    /\ registry = NoRegistry
    /\ catalog = Params
    /\ running = "none"
    /\ status = IdleStatus
    /\ datasets = Params
    /\ run_result = "none"

InitP == InitPipeline /\ (InitLoader /\ bucket_exists = FALSE)

InitL == InitLoader /\ InitPipelineIdle

SpecPipeline == InitP /\ [][NextPipeline]_vars

SpecLoader == InitL /\ [][NextLoader]_vars

SpecServing == InitL /\ [][NextServing]_vars

(***************************************************************************)
(* Properties                                                              *)
(***************************************************************************)

FiveNames == {"__default__", "fetching_data", "preprocessing_data",
              "training_model", "converting_to_onnx"}

\* the entry of a dictionary as a sequence: empty when the key is absent
Entry(d, k) == IF k \in DOMAIN d THEN <<d[k]>> ELSE <<>>

\* both local files of a model directory exist
BothFiles(f, k) == {<<k, "model.onnx">>, <<k, "scaler.pkl">>} \subseteq DOMAIN f

\* C1: in a run of `__default__`, converting_model_node has started only if
\* training_model_node has finished (the original claim; the node graph does
\* not order the two, since training_done is produced by no node).
C1_ConvertStartsAfterTraining ==
    (running = "__default__" /\ status["converting_model_node"] # "idle")
        => status["training_model_node"] = "done"

\* C3: register_pipelines returns exactly the five names, each named entry is
\* the pipeline of its own create_pipeline, and the nodes of `__default__` are
\* exactly the union of the nodes of the four named entries.
C3_RegistryIsTheFivePipelines ==
    registry # NoRegistry =>
        /\ DOMAIN registry = FiveNames
        /\ registry["fetching_data"] = fd_create_pipeline
        /\ registry["preprocessing_data"] = pd_create_pipeline
        /\ registry["training_model"] = tm_create_pipeline
        /\ registry["converting_to_onnx"] = cto_create_pipeline
        /\ registry["__default__"] =
               UNION {registry[n] : n \in FiveNames \ {"__default__"}}
        /\ \A n \in AllNodes :
               (n \in registry["__default__"]) <=>
               (\E name \in FiveNames \ {"__default__"} : n \in registry[name])

\* C3 witness: the registry is in use, every node of `__default__` has run
C3_Witness ==
    /\ DOMAIN registry = FiveNames
    /\ running = "__default__"
    /\ \A n \in registry["__default__"] : status[n.name] = "done"
    /\ Cardinality(registry["__default__"]) = 6

\* C2: a get_predictions(model_name, sample) call returns predict(sample) of the
\* model stored under model_name when model_name is a key of session_models and
\* raises ValueError('Model not found in session.') otherwise; session_models,
\* date and the local files are the same after the call.
C2_GetPredictions ==
    [][(result' # result /\ result'.call = "get_predictions") =>
          LET model_name == result'.args[1]
              sample     == result'.args[2]
          IN  /\ IF model_name \in DOMAIN session_models
                 THEN /\ result'.kind = "returned"
                      /\ result'.value = predict(session_models[model_name], sample)
                 ELSE /\ result'.kind = "raised"
                      /\ result'.value = <<"ValueError: Model not found in session.">>
              /\ UNCHANGED <<session_models, date, files, dirs>>]_vars

\* C2 witness: a prediction was returned by a model loaded from the bucket, and
\* another model name is not in the session
C2_Witness ==
    /\ result.call = "get_predictions"
    /\ result.kind = "returned"
    /\ result.args[1] \in DOMAIN session_models
    /\ DOMAIN session_models # ModelNames

\* C4: once update_model_files has returned (the constructor's call included),
\* every model name of the listing it took from the bucket for self.date is a
\* key of session_models, so get_predictions finds it.
C4_ListedModelsAreInSession ==
    (result.kind = "returned" /\ result.call = "update_model_files") =>
        \A m \in listing : _check_model_exists_in_session(m)

\* C4 witness: update_model_files returned after a listing of two models
C4_Witness ==
    /\ result.kind = "returned"
    /\ result.call = "update_model_files"
    /\ Cardinality(listing) >= 2
    /\ constructed

\* C5 as stated: a key of session_models has both local files, as downloaded for
\* the date of the call that placed the key. The statement is checked only in
\* the states between the calls (pc = "idle"), which is all it can ask for: the
\* states inside a later call, between its download and its add, are left out.
C5_FilesStayAsPlaced ==
    pc = "idle" =>
        \A k \in DOMAIN session_models :
            /\ BothFiles(files, k)
            /\ files[<<k, "model.onnx">>] = placed[k]
            /\ files[<<k, "scaler.pkl">>] = placed[k]

\* C5 amended: in every reachable state a key of session_models has both local
\* files; at the step that places a key, both files are those downloaded for
\* self.date of the running call and the placed model is built from them; and
\* the local files change only when a call of update_model_files downloads
\* the model of its current iteration.
C5_FilesDownloadedBeforeAdd ==
    [][/\ \A k \in DOMAIN session_models' : BothFiles(files', k)
       /\ \A f \in DOMAIN files' :
              Entry(files, f) # Entry(files', f)
              => /\ pc \in {"fget_model", "fget_scaler"}
                 /\ f[1] = fmt_model(cur[1], cur[2])
                 /\ files'[f] = date
       /\ \A k \in DOMAIN session_models' :
              (Entry(session_models, k) # Entry(session_models', k) \/ Entry(placed, k) # Entry(placed', k))
              => /\ pc = "add"
                 /\ files' = files
                 /\ files'[<<k, "model.onnx">>] = date
                 /\ files'[<<k, "scaler.pkl">>] = date
                 /\ placed'[k] = date
                 /\ session_models'[k] = [model |-> date, scaler |-> date]]_vars

\* C5 witness: a key was placed on the second day, over files of the first day
C5_Witness ==
    \E k \in DOMAIN session_models :
        /\ placed[k] = 2
        /\ session_models[k] = [model |-> 2, scaler |-> 2]
        /\ pc = "loop"

\* C6: when fget_object finds no object for model.onnx or scaler.pkl, the
\* exception leaves update_model_files; the failing model's entry is the one it
\* had before the call, the models iterated earlier in the call have their new
\* entries, and the models not yet iterated keep the entries they had before
\* the call and are not iterated.
C6_PartialUpdateOnFailedDownload ==
    [][(/\ pc \in {"fget_model", "fget_scaler"}
        /\ pc' # pc
        /\ <<date, fmt_model(cur[1], cur[2]),
             IF pc = "fget_model" THEN "model.onnx" ELSE "scaler.pkl">> \notin objects)
       => LET failing == fmt_model(cur[1], cur[2])
          IN  /\ pc' = "idle"
              /\ todo' = {}
              /\ result' = Raised("update_model_files", <<>>, "S3Error")
              /\ Entry(session_models', failing) = Entry(before, failing)
              /\ \A m \in listing \ (todo \cup {failing}) :
                     /\ m \in DOMAIN session_models'
                     /\ session_models'[m] = [model |-> date, scaler |-> date]
              /\ \A m \in todo : Entry(session_models', m) = Entry(before, m)]_vars

\* C6 witness: a download failed after one model of the listing got its entry
\* and before another was iterated
C6_Witness ==
    /\ result = Raised("update_model_files", <<>>, "S3Error")
    /\ pc = "idle"
    /\ \E m \in listing : m \in DOMAIN session_models /\ placed[m] = date
    /\ Cardinality(listing) >= 3
    /\ Cardinality(DOMAIN session_models) = 1

====
